---- MODULE Spec2Model ----
(***************************************************************************)
(* Model of the deref-derive procedural macro crate (src/src/lib.rs).      *)
(*                                                                         *)
(* One structure definition is handed to the two derive entry points,      *)
(* derive_deref and derive_deref_mut.  Each enumerates the fields, resolves*)
(* the target field and emits an implementation, or panics.  When both     *)
(* implementations exist, the program that contains them can construct an  *)
(* instance and use it through the generated accessors.                    *)
(***************************************************************************)
EXTENDS Naturals, Sequences, FiniteSets

VARIABLES input, expanded, targets, resolver_ran, inst, expect, written

vars == <<input, expanded, targets, resolver_ran, inst, expect, written>>

(***************************************************************************)
(* Bounds of the model.                                                    *)
(***************************************************************************)
MaxFields == 3
MaxAttrs == 2
MaxParams == 2
MaxWhere == 1
MaxStr == 2

SeqsUpTo(S, n) == UNION {[1..k -> S] : k \in 0..n}

(***************************************************************************)
(* The two derive macros.                                                  *)
(***************************************************************************)
Macros == {"Deref", "DerefMut"}

(***************************************************************************)
(* Attributes.  A path is its sequence of segments; args tells whether the *)
(* attribute carries arguments.                                            *)
(***************************************************************************)
ATTR_NAME == "deref"

Attrs ==
    { [path |-> <<"deref">>, args |-> FALSE],
      [path |-> <<"deref">>, args |-> TRUE],
      [path |-> <<"doc">>, args |-> TRUE],
      [path |-> <<"other", "deref">>, args |-> FALSE] }

AttrLists == SeqsUpTo(Attrs, MaxAttrs)

PlainAttrLists == { <<>>, <<[path |-> <<"deref">>, args |-> FALSE]>> }

\* attr.path.is_ident(name): a path of exactly one segment, equal to name.
is_ident(path, name) == Len(path) = 1 /\ path[1] = name

\* Faulty variant: only the first attribute of the field is looked at.
has_attr_first_only(attrs) ==
    Len(attrs) > 0 /\ is_ident(attrs[1].path, ATTR_NAME)

has_attr(attrs) ==
    \E k \in 1..Len(attrs) : is_ident(attrs[k].path, ATTR_NAME)

(***************************************************************************)
(* Structure definitions.                                                  *)
(***************************************************************************)
Types == {"u32", "String"}

Idents == <<"field", "other_field", "third", "fourth", "fifth">>

NamedField(i, ty, attrs) == [ident |-> Idents[i], ty |-> ty, attrs |-> attrs]
UnnamedField(ty, attrs) == [ident |-> "", ty |-> ty, attrs |-> attrs]

\* All structs with n fields whose types are in T and attribute lists in A.
NamedStructs(n, T, A) ==
    { [kind |-> "Struct",
       fields |-> [kind |-> "Named",
                   list |-> [i \in 1..n |-> NamedField(i, t[i], a[i])]]] :
      t \in [1..n -> T], a \in [1..n -> A] }

UnnamedStructs(n, T, A) ==
    { [kind |-> "Struct",
       fields |-> [kind |-> "Unnamed",
                   list |-> [i \in 1..n |-> UnnamedField(t[i], a[i])]]] :
      t \in [1..n -> T], a \in [1..n -> A] }

NoFields == [kind |-> "Unit", list |-> <<>>]

UnitStruct == [kind |-> "Struct", fields |-> NoFields]
EnumData == [kind |-> "Enum", fields |-> NoFields]
UnionData == [kind |-> "Union", fields |-> NoFields]

Structs(N, T, A) ==
    UNION { NamedStructs(n, T, A) \cup UnnamedStructs(n, T, A) : n \in N }

(***************************************************************************)
(* Generics.                                                               *)
(***************************************************************************)
GenericParams ==
    { [kind |-> "Lifetime", ident |-> "'a", bounds |-> <<>>, default |-> ""],
      [kind |-> "Type", ident |-> "T", bounds |-> <<>>, default |-> ""],
      [kind |-> "Type", ident |-> "T", bounds |-> <<"Clone">>, default |-> ""],
      [kind |-> "Type", ident |-> "U", bounds |-> <<"Copy", "Default">>,
       default |-> "u32"],
      [kind |-> "Const", ident |-> "N", bounds |-> <<"usize">>, default |-> ""] }

WherePredicates == {"T: Default", "U: Copy"}

\* Parameter lists the parser accepts: distinct names, lifetimes first,
\* defaulted parameters last.
WellFormedParams(ps) ==
    /\ \A i, j \in 1..Len(ps) : ps[i].ident = ps[j].ident => i = j
    /\ \A i, j \in 1..Len(ps) :
           (i < j /\ ps[j].kind = "Lifetime") => ps[i].kind = "Lifetime"
    /\ \A i, j \in 1..Len(ps) :
           (i < j /\ ps[i].default # "") => ps[j].default # ""

GenericsSet ==
    { [params |-> ps, where_clause |-> w] :
      ps \in {p \in SeqsUpTo(GenericParams, MaxParams) : WellFormedParams(p)},
      w \in SeqsUpTo(WherePredicates, MaxWhere) }

NoGenerics == [params |-> <<>>, where_clause |-> <<>>]

(***************************************************************************)
(* struct DerefTarget { ty, field, has_attr }.  field is the token stream  *)
(* that refers to the field: an identifier or an index literal.            *)
(***************************************************************************)
IdentMember(name) == [kind |-> "Ident", ident |-> name, index |-> 0]
IndexMember(i) == [kind |-> "Index", ident |-> "", index |-> i]

DerefTarget(ty, field, attr) == [ty |-> ty, field |-> field, has_attr |-> attr]

\* fields.named.iter().map(...)
NamedTargets(list) ==
    [i \in 1..Len(list) |->
        DerefTarget(list[i].ty, IdentMember(list[i].ident),
                    has_attr(list[i].attrs))]

\* Faulty variant: the index literal counts from one.
UnnamedTargets_one_based(list) ==
    [i \in 1..Len(list) |->
        DerefTarget(list[i].ty, IndexMember(i), has_attr(list[i].attrs))]

\* fields.unnamed.iter().enumerate().map(...): enumerate() counts from 0,
\* the sequence here from 1.
UnnamedTargets(list) ==
    [i \in 1..Len(list) |->
        DerefTarget(list[i].ty, IndexMember(i - 1), has_attr(list[i].attrs))]

(***************************************************************************)
(* Outcomes of resolution: a target, or a panic with its message.          *)
(***************************************************************************)
MsgUnit == "cannot be derived for unit structs"
MsgAmbiguous == "expected exactly one field with #[deref] attribute"
MsgNotStruct == "not implemented: can only be derived for structs"

Ok(t) == [kind |-> "ok", target |-> t, msg |-> ""]
Panic(m) == [kind |-> "panic", target |-> DerefTarget("", IdentMember(""), FALSE),
             msg |-> m]

Marked(ts) == SelectSeq(ts, LAMBDA t : t.has_attr)

\* Faulty variant: no single-field shortcut, the marker is always required.
get_target_always_filter(ts) ==
    IF Len(Marked(ts)) = 1 THEN Ok(Marked(ts)[1]) ELSE Panic(MsgAmbiguous)

\* Faulty variant: one marked field is required, but the first field is returned.
get_target_first_field(ts) ==
    IF Len(ts) = 1
    THEN Ok(ts[1])
    ELSE IF Len(Marked(ts)) = 1 THEN Ok(ts[1]) ELSE Panic(MsgAmbiguous)

\* Faulty variant: with several marked fields the first marked one is taken.
get_target_first_marked(ts) ==
    IF Len(ts) = 1
    THEN Ok(ts[1])
    ELSE IF Len(Marked(ts)) >= 1 THEN Ok(Marked(ts)[1]) ELSE Panic(MsgAmbiguous)

get_target(ts) ==
    IF Len(ts) = 1
    THEN Ok(ts[1])
    ELSE IF Len(Marked(ts)) = 1 THEN Ok(Marked(ts)[1]) ELSE Panic(MsgAmbiguous)

(***************************************************************************)
(* DerefTarget::get.  The result records what the call returned (result),  *)
(* the field records it enumerated (targets) and whether it went through   *)
(* get_target (resolver).                                                  *)
(***************************************************************************)
Call(result, ts, resolver) ==
    [result |-> result, targets |-> ts, resolver |-> resolver]

\* Faulty variant: a struct without fields is treated like a unit struct.
DerefTarget_get_empty_as_unit(data) ==
    IF data.kind = "Struct"
    THEN IF data.fields.kind = "Unit" \/ Len(data.fields.list) = 0
         THEN Call(Panic(MsgUnit), <<>>, FALSE)
         ELSE IF data.fields.kind = "Named"
              THEN Call(get_target(NamedTargets(data.fields.list)),
                        NamedTargets(data.fields.list), TRUE)
              ELSE Call(get_target(UnnamedTargets(data.fields.list)),
                        UnnamedTargets(data.fields.list), TRUE)
    ELSE Call(Panic(MsgNotStruct), <<>>, FALSE)

\* Faulty variant: the catch-all arm returns a placeholder target instead of failing.
DerefTarget_get_placeholder(data) ==
    IF data.kind = "Struct"
    THEN IF data.fields.kind = "Named"
         THEN Call(get_target(NamedTargets(data.fields.list)),
                   NamedTargets(data.fields.list), TRUE)
         ELSE IF data.fields.kind = "Unnamed"
              THEN Call(get_target(UnnamedTargets(data.fields.list)),
                        UnnamedTargets(data.fields.list), TRUE)
              ELSE Call(Panic(MsgUnit), <<>>, FALSE)
    ELSE Call(Ok(DerefTarget("", IdentMember(""), FALSE)), <<>>, FALSE)

DerefTarget_get(data) ==
    IF data.kind = "Struct"
    THEN IF data.fields.kind = "Named"
         THEN Call(get_target(NamedTargets(data.fields.list)),
                   NamedTargets(data.fields.list), TRUE)
         ELSE IF data.fields.kind = "Unnamed"
              THEN Call(get_target(UnnamedTargets(data.fields.list)),
                        UnnamedTargets(data.fields.list), TRUE)
              ELSE Call(Panic(MsgUnit), <<>>, FALSE)
    ELSE Call(Panic(MsgNotStruct), <<>>, FALSE)

(***************************************************************************)
(* Generics::split_for_impl: the impl generics keep every parameter with   *)
(* its bounds and leave the defaults off; the type generics are the        *)
(* parameter names; the where clause is passed on.                         *)
(***************************************************************************)
ImplParam(p) == [kind |-> p.kind, ident |-> p.ident, bounds |-> p.bounds]

split_for_impl(g) ==
    [impl_generics |-> [i \in 1..Len(g.params) |-> ImplParam(g.params[i])],
     ty_generics |-> [i \in 1..Len(g.params) |-> g.params[i].ident],
     where_clause |-> g.where_clause]

(***************************************************************************)
(* The token streams the entry points return, or the panic that ends the   *)
(* expansion.                                                              *)
(***************************************************************************)
NotRun == [kind |-> "none"]

Aborted(m) == [kind |-> "panic", msg |-> m]

Impl(trait, ident, g, assoc, method, mutable, member) ==
    [kind |-> "impl",
     attrs |-> <<"automatically_derived">>,
     impl_generics |-> g.impl_generics,
     trait |-> trait,
     ident |-> ident,
     ty_generics |-> g.ty_generics,
     where_clause |-> g.where_clause,
     assoc |-> assoc,
     method |-> [attrs |-> <<"inline(always)">>, name |-> method,
                 mutable |-> mutable, member |-> member]]

\* Faulty variant: the where clause is not spliced into the impl header.
DerefExpand_no_where(in) ==
    LET call == DerefTarget_get(in.data)
        g == split_for_impl(in.generics)
    IN  IF call.result.kind = "panic"
        THEN Aborted(call.result.msg)
        ELSE Impl("::std::ops::Deref", in.ident,
                  [g EXCEPT !.where_clause = <<>>],
                  <<[name |-> "Target", ty |-> call.result.target.ty]>>,
                  "deref", FALSE, call.result.target.field)

DerefExpand(in) ==
    LET call == DerefTarget_get(in.data)
        g == split_for_impl(in.generics)
    IN  IF call.result.kind = "panic"
        THEN Aborted(call.result.msg)
        ELSE Impl("::std::ops::Deref", in.ident, g,
                  <<[name |-> "Target", ty |-> call.result.target.ty]>>,
                  "deref", FALSE, call.result.target.field)

\* Faulty variant: the body projects to the first enumerated field.
DerefMutExpand_first_field(in) ==
    LET call == DerefTarget_get(in.data)
        g == split_for_impl(in.generics)
    IN  IF call.result.kind = "panic"
        THEN Aborted(call.result.msg)
        ELSE Impl("::std::ops::DerefMut", in.ident, g, <<>>,
                  "deref_mut", TRUE, call.targets[1].field)

\* Faulty variant: the body projects to the last enumerated field.
DerefMutExpand_last_field(in) ==
    LET call == DerefTarget_get(in.data)
        g == split_for_impl(in.generics)
    IN  IF call.result.kind = "panic"
        THEN Aborted(call.result.msg)
        ELSE Impl("::std::ops::DerefMut", in.ident, g, <<>>,
                  "deref_mut", TRUE, call.targets[Len(call.targets)].field)

DerefMutExpand(in) ==
    LET call == DerefTarget_get(in.data)
        g == split_for_impl(in.generics)
    IN  IF call.result.kind = "panic"
        THEN Aborted(call.result.msg)
        ELSE Impl("::std::ops::DerefMut", in.ident, g, <<>>,
                  "deref_mut", TRUE, call.result.target.field)

(***************************************************************************)
(* The program that contains the generated implementations.  A value is    *)
(* tagged with its type; n is used by u32 and s by String.                 *)
(***************************************************************************)
Chars == {"b", "!"}

U32Values == {[ty |-> "u32", n |-> k, s |-> <<>>] : k \in {0, 1, 42}}
StringValues == {[ty |-> "String", n |-> 0, s |-> str] : str \in SeqsUpTo(Chars, MaxStr)}

Values(ty) == IF ty = "u32" THEN U32Values ELSE StringValues

\* Default::default() of a field type.
Default(ty) == [ty |-> ty, n |-> 0, s |-> <<>>]

\* The position of the field that the expression self.<member> refers to in a
\* struct with these fields: 0 when the struct has no such field.
Slot(fields, member) ==
    IF member.kind = "Ident" /\ fields.kind = "Named"
    THEN IF \E i \in 1..Len(fields.list) : fields.list[i].ident = member.ident
         THEN CHOOSE i \in 1..Len(fields.list) :
                  fields.list[i].ident = member.ident
         ELSE 0
    ELSE IF /\ member.kind = "Index"
            /\ fields.kind = "Unnamed"
            /\ member.index + 1 \in 1..Len(fields.list)
         THEN member.index + 1
         ELSE 0

FieldList == input.data.fields.list

\* Target of the Deref implementation.
TargetTy(impl) == impl.assoc[1].ty

\* fn deref(&self) -> &Self::Target { &self.#target_field }
deref(impl, self) == self[Slot(input.data.fields, impl.method.member)]

\* The place behind fn deref_mut(&mut self) { &mut self.#target_field },
\* after the value v has been stored through it.
deref_mut_store(impl, self, v) ==
    [self EXCEPT ![Slot(input.data.fields, impl.method.member)] = v]

\* The host compiler accepts the two implementations: both exist, each body
\* names a field of the struct, and that field has the type Self::Target.
TypeChecks ==
    /\ expanded["Deref"].kind = "impl"
    /\ expanded["DerefMut"].kind = "impl"
    /\ \A m \in Macros :
         /\ Slot(input.data.fields, expanded[m].method.member) # 0
         /\ FieldList[Slot(input.data.fields, expanded[m].method.member)].ty
               = TargetTy(expanded["Deref"])

(***************************************************************************)
(* Inputs.                                                                 *)
(***************************************************************************)
StructIdents == {"Foo", "Wrapper"}

\* Every shape with up to MaxFields fields, each field marked or not.
PlainInputs ==
    { [ident |-> "Foo", generics |-> NoGenerics, data |-> d] :
      d \in Structs(0..MaxFields, Types, PlainAttrLists)
            \cup {UnitStruct, EnumData, UnionData} }

\* Single-field and two-field structs with every attribute list.
AttrInputs ==
    { [ident |-> "Foo", generics |-> NoGenerics, data |-> d] :
      d \in Structs(1..2, {"u32"}, AttrLists) }

\* Generic single-field and two-field structs.
GenericInputs ==
    { [ident |-> id, generics |-> g, data |-> d] :
      id \in StructIdents, g \in GenericsSet,
      d \in Structs(1..2, {"u32"}, PlainAttrLists) }

Inputs == PlainInputs \cup AttrInputs \cup GenericInputs

NoValue == [ty |-> "", n |-> 0, s |-> <<>>]

Init ==
    /\ input \in Inputs
    /\ expanded = [m \in Macros |-> NotRun]
    /\ targets = [m \in Macros |-> <<>>]
    /\ resolver_ran = [m \in Macros |-> FALSE]
    /\ inst = [live |-> FALSE, vals |-> <<>>]
    /\ expect = NoValue
    /\ written = FALSE

(***************************************************************************)
(* Entry points.                                                           *)
(***************************************************************************)
derive_deref ==
    /\ expanded["Deref"].kind = "none"
    /\ expanded' = [expanded EXCEPT !["Deref"] = DerefExpand(input)]
    /\ targets' = [targets EXCEPT !["Deref"] = DerefTarget_get(input.data).targets]
    /\ resolver_ran' =
         [resolver_ran EXCEPT !["Deref"] = DerefTarget_get(input.data).resolver]
    /\ UNCHANGED <<input, inst, expect, written>>

derive_deref_mut ==
    /\ expanded["DerefMut"].kind = "none"
    /\ expanded' = [expanded EXCEPT !["DerefMut"] = DerefMutExpand(input)]
    /\ targets' =
         [targets EXCEPT !["DerefMut"] = DerefTarget_get(input.data).targets]
    /\ resolver_ran' =
         [resolver_ran EXCEPT !["DerefMut"] = DerefTarget_get(input.data).resolver]
    /\ UNCHANGED <<input, inst, expect, written>>

(***************************************************************************)
(* Use of the generated accessors.                                         *)
(***************************************************************************)
\* let mut foo = Foo::default();
New ==
    /\ TypeChecks
    /\ ~inst.live
    /\ inst' = [live |-> TRUE,
                vals |-> [i \in 1..Len(FieldList) |-> Default(FieldList[i].ty)]]
    /\ expect' = NoValue
    /\ written' = FALSE
    /\ UNCHANGED <<input, expanded, targets, resolver_ran>>

\* *foo = v;
Assign(v) ==
    /\ inst.live
    /\ v \in Values(TargetTy(expanded["Deref"]))
    /\ inst' = [inst EXCEPT !.vals = deref_mut_store(expanded["DerefMut"], @, v)]
    /\ expect' = v
    /\ written' = TRUE
    /\ UNCHANGED <<input, expanded, targets, resolver_ran>>

\* foo.push(c);  auto-deref reaches String::push through deref_mut.
Push(c) ==
    /\ inst.live
    /\ TargetTy(expanded["Deref"]) = "String"
    /\ LET old == deref(expanded["DerefMut"], inst.vals)
           new == [old EXCEPT !.s = Append(@, c)]
       IN  /\ Len(old.s) < MaxStr
           /\ inst' = [inst EXCEPT
                         !.vals = deref_mut_store(expanded["DerefMut"], @, new)]
           /\ expect' = new
    /\ written' = TRUE
    /\ UNCHANGED <<input, expanded, targets, resolver_ran>>

Next ==
    \/ derive_deref
    \/ derive_deref_mut
    \/ New
    \/ \E v \in U32Values \cup StringValues : Assign(v)
    \/ \E c \in Chars : Push(c)

Spec == Init /\ [][Next]_vars

(***************************************************************************)
(* Vocabulary of the properties.                                           *)
(***************************************************************************)
Done(m) == expanded[m].kind # "none"
Emitted(m) == expanded[m].kind = "impl"
Failed(m, msg) == expanded[m].kind = "panic" /\ expanded[m].msg = msg

HasFieldList ==
    input.data.kind = "Struct" /\ input.data.fields.kind \in {"Named", "Unnamed"}

NumFields == Len(FieldList)

\* The fields with at least one attribute whose path is the single segment deref.
MarkedFields ==
    { i \in 1..NumFields :
        \E k \in 1..Len(FieldList[i].attrs) :
            FieldList[i].attrs[k].path = <<"deref">> }

\* How the i-th declared field is referred to: by its name, or by i - 1.
MemberOf(i) ==
    IF input.data.fields.kind = "Named"
    THEN [kind |-> "Ident", ident |-> FieldList[i].ident, index |-> 0]
    ELSE [kind |-> "Index", ident |-> "", index |-> i - 1]

\* The implementation of m projects to the i-th declared field.
ProjectsTo(m, i) ==
    /\ Emitted(m)
    /\ expanded[m].method.member = MemberOf(i)
    /\ m = "Deref" => TargetTy(expanded[m]) = FieldList[i].ty

\* C1: a struct with exactly one field, named or positional, resolves to that
\* field for both macros, whether or not the field carries the marker.
C1_SingleField ==
    \A m \in Macros :
        (Done(m) /\ HasFieldList /\ NumFields = 1) => ProjectsTo(m, 1)

C1_Witness ==
    /\ HasFieldList /\ NumFields = 1 /\ MarkedFields = {}
    /\ Emitted("Deref") /\ Emitted("DerefMut")
    /\ input.data.fields.kind = "Unnamed"

\* C2: a struct with two or more fields of which exactly one is marked
\* resolves, for both macros, to exactly the marked field, wherever it stands.
C2_OneMarked ==
    \A m \in Macros : \A i \in 1..NumFields :
        (Done(m) /\ HasFieldList /\ NumFields >= 2 /\ MarkedFields = {i})
            => ProjectsTo(m, i)

C2_Witness ==
    /\ HasFieldList /\ NumFields = 3 /\ MarkedFields = {2}
    /\ Emitted("Deref") /\ Emitted("DerefMut")

\* C3: a struct with two or more fields of which none, or more than one, is
\* marked fails with the ambiguous-target message; no field is defaulted to.
C3_Ambiguous ==
    \A m \in Macros :
        (Done(m) /\ HasFieldList /\ NumFields >= 2
                 /\ Cardinality(MarkedFields) # 1)
            => Failed(m, MsgAmbiguous)

C3_Witness ==
    /\ HasFieldList /\ NumFields >= 2 /\ Cardinality(MarkedFields) >= 2
    /\ Failed("Deref", MsgAmbiguous) /\ Failed("DerefMut", MsgAmbiguous)

\* C4 as stated: every struct without fields, whatever its syntactic shape,
\* fails with the unit-struct message and never reaches get_target.
C4_Original ==
    \A m \in Macros :
        (Done(m) /\ input.data.kind = "Struct" /\ NumFields = 0)
            => (Failed(m, MsgUnit) /\ ~resolver_ran[m])

\* C4 as amended: a unit struct fails with the unit-struct message before
\* get_target is reached; an empty named or empty positional struct reaches
\* get_target and fails there with the ambiguous-target message.
C4_NoFields ==
    \A m \in Macros :
        (Done(m) /\ input.data.kind = "Struct" /\ NumFields = 0)
            => IF input.data.fields.kind = "Unit"
               THEN Failed(m, MsgUnit) /\ ~resolver_ran[m]
               ELSE Failed(m, MsgAmbiguous) /\ resolver_ran[m]

C4_Witness ==
    /\ input.data.kind = "Struct" /\ NumFields = 0
    /\ input.data.fields.kind = "Named"
    /\ Failed("Deref", MsgAmbiguous) /\ resolver_ran["Deref"]

\* C5: once both macros have run on the definition they have the same
\* outcome: the same failure, or two implementations that project to the same
\* field, whose type is the Target declared by the Deref implementation.
C5_Consistent ==
    (Done("Deref") /\ Done("DerefMut")) =>
        /\ expanded["Deref"].kind = expanded["DerefMut"].kind
        /\ Emitted("Deref") =>
             /\ expanded["DerefMut"].method.member
                   = expanded["Deref"].method.member
             /\ Slot(input.data.fields, expanded["DerefMut"].method.member) # 0
             /\ FieldList[Slot(input.data.fields,
                               expanded["DerefMut"].method.member)].ty
                   = TargetTy(expanded["Deref"])
        /\ ~Emitted("Deref") => expanded["DerefMut"].msg = expanded["Deref"].msg

C5_Witness ==
    /\ Emitted("Deref") /\ Emitted("DerefMut")
    /\ NumFields >= 2
    /\ Slot(input.data.fields, expanded["DerefMut"].method.member) = NumFields

\* The implementation of m is whole: header, attributes, method and a body that
\* names a field of the struct; the Deref one declares that field's type.
Complete(m) ==
    /\ expanded[m].attrs = <<"automatically_derived">>
    /\ expanded[m].ident = input.ident
    /\ expanded[m].method.attrs = <<"inline(always)">>
    /\ Slot(input.data.fields, expanded[m].method.member) # 0
    /\ IF m = "Deref"
       THEN /\ expanded[m].trait = "::std::ops::Deref"
            /\ expanded[m].method.name = "deref"
            /\ ~expanded[m].method.mutable
            /\ Len(expanded[m].assoc) = 1
            /\ TargetTy(expanded[m])
                  = FieldList[Slot(input.data.fields,
                                   expanded[m].method.member)].ty
       ELSE /\ expanded[m].trait = "::std::ops::DerefMut"
            /\ expanded[m].method.name = "deref_mut"
            /\ expanded[m].method.mutable
            /\ expanded[m].assoc = <<>>

\* C6 as stated: every invocation ends with one whole implementation, or with
\* nothing emitted and one of the two failures, unit struct or ambiguous.
C6_Original ==
    \A m \in Macros :
        Done(m) => \/ Emitted(m) /\ Complete(m)
                   \/ Failed(m, MsgUnit)
                   \/ Failed(m, MsgAmbiguous)

\* C6 as amended: every invocation ends with one whole implementation, or with
\* nothing emitted and one of three failures: unit struct, ambiguous target,
\* or, for an enum or a union, the not-implemented failure.
C6_Outcomes ==
    \A m \in Macros :
        Done(m) => \/ Emitted(m) /\ Complete(m)
                   \/ Failed(m, MsgUnit)
                   \/ Failed(m, MsgAmbiguous)
                   \/ Failed(m, MsgNotStruct) /\ input.data.kind # "Struct"

C6_Witness ==
    /\ input.data.kind = "Enum"
    /\ Failed("Deref", MsgNotStruct) /\ Failed("DerefMut", MsgNotStruct)

\* C7: an emitted implementation carries the struct's identifier, every
\* generic parameter with its bounds in declaration order, and the where
\* clause, whichever field is the target.
C7_Generics ==
    \A m \in Macros :
        Emitted(m) =>
            /\ expanded[m].ident = input.ident
            /\ Len(expanded[m].impl_generics) = Len(input.generics.params)
            /\ Len(expanded[m].ty_generics) = Len(input.generics.params)
            /\ \A i \in 1..Len(input.generics.params) :
                 /\ expanded[m].impl_generics[i].kind
                       = input.generics.params[i].kind
                 /\ expanded[m].impl_generics[i].ident
                       = input.generics.params[i].ident
                 /\ expanded[m].impl_generics[i].bounds
                       = input.generics.params[i].bounds
                 /\ expanded[m].ty_generics[i] = input.generics.params[i].ident
            /\ expanded[m].where_clause = input.generics.where_clause

C7_Witness ==
    /\ Emitted("Deref") /\ Emitted("DerefMut")
    /\ input.ident = "Wrapper"
    /\ Len(input.generics.params) >= 2
    /\ \E i \in 1..Len(input.generics.params) :
           Len(input.generics.params[i].bounds) >= 2
    /\ Len(input.generics.where_clause) >= 1
    /\ NumFields = 2 /\ MarkedFields = {2}

\* C8: after any sequence of assignments and pushes made through deref_mut,
\* deref returns the value last written, and every other field of the
\* instance still has the value it was constructed with.
C8_ReadBack ==
    (inst.live /\ written) =>
        /\ deref(expanded["Deref"], inst.vals) = expect
        /\ \A i \in 1..NumFields :
             i # Slot(input.data.fields, expanded["Deref"].method.member)
                 => inst.vals[i] = Default(FieldList[i].ty)

C8_Witness ==
    /\ inst.live /\ written
    /\ input.data.fields.kind = "Unnamed" /\ NumFields = 2
    /\ FieldList[1].ty = "u32" /\ MarkedFields = {2}
    /\ expect.s = <<"b", "!">>
    /\ deref(expanded["Deref"], inst.vals) = expect

\* The field resolution selects: the only field, or the only marked field.
Resolved(i) ==
    \/ NumFields = 1 /\ i = 1
    \/ NumFields # 1 /\ MarkedFields = {i}

\* C9: enumeration yields one record per declared field in declaration order,
\* referred to by name in a named struct and by zero-based position in a
\* positional one, and an emitted body projects to the resolved field only.
C9_Enumeration ==
    \A m \in Macros :
        (Done(m) /\ HasFieldList) =>
            /\ Len(targets[m]) = NumFields
            /\ \A i \in 1..NumFields :
                 /\ targets[m][i].ty = FieldList[i].ty
                 /\ targets[m][i].field = MemberOf(i)
            /\ Emitted(m) =>
                 \E i \in 1..NumFields :
                     /\ Resolved(i)
                     /\ expanded[m].method.member = MemberOf(i)
                     /\ Slot(input.data.fields, expanded[m].method.member) = i

C9_Witness ==
    /\ input.data.fields.kind = "Unnamed" /\ NumFields = 3
    /\ MarkedFields = {3}
    /\ Emitted("Deref")
    /\ expanded["Deref"].method.member.index = 2
    /\ targets["Deref"][2].field.index = 1

\* C10: a field counts as marked exactly when one of its attributes has the
\* path deref, with or without arguments; resolution in a multi-field struct
\* succeeds exactly when the number of such fields, not of such attributes,
\* is one.
C10_MarkerCount ==
    \A m \in Macros :
        (Done(m) /\ HasFieldList) =>
            /\ \A i \in 1..NumFields :
                 targets[m][i].has_attr <=> (i \in MarkedFields)
            /\ NumFields >= 2 =>
                 (Emitted(m) <=> Cardinality(MarkedFields) = 1)

C10_Witness ==
    /\ HasFieldList /\ NumFields = 2
    /\ FieldList[1].attrs = <<[path |-> <<"deref">>, args |-> TRUE],
                              [path |-> <<"deref">>, args |-> FALSE]>>
    /\ FieldList[2].attrs = <<[path |-> <<"doc">>, args |-> TRUE],
                              [path |-> <<"other", "deref">>, args |-> FALSE]>>
    /\ Emitted("Deref") /\ Emitted("DerefMut")
    /\ expanded["DerefMut"].method.member = MemberOf(1)

====
